---------------------------- MODULE Spec2Model ----------------------------
(***************************************************************************)
(* A model of the dex-indexer crate of eth-mev: the memoized token         *)
(* decimals resolver (protocols/mod.rs), the UniswapV2 / UniswapV3 log     *)
(* decoders (protocols/uniswapv2.rs, protocols/uniswapv3.rs), the          *)
(* protocol dispatcher and the Pool entity with its text encoding          *)
(* (types.rs).                                                             *)
(*                                                                         *)
(* Text is a sequence of one-character strings.  An Address is a sequence  *)
(* of 20 bytes, a 32-byte hash a sequence of 32 bytes.  A result is a      *)
(* record with a tag: Ok, Err or Panic.                                    *)
(***************************************************************************)
EXTENDS Integers, Sequences, FiniteSets, TLC

VARIABLES
    cache,      \* the #[cached] store of get_coin_decimals: key text -> u8
    pc,         \* per caller: where its task stands
    task,       \* per caller: the operation it runs
    stage,      \* per caller: which token of to_pool is being resolved
    addr,       \* per caller: coin_address of its get_coin_decimals call
    res,        \* per caller: result of its get_coin_decimals call
    decs,       \* per caller: decimals resolved so far inside to_pool
    out,        \* per caller: the task's final result
    calls,      \* history: decimals() network reads issued, per address
    failed,     \* history: addresses for which a decimals() read failed
    phase,      \* SpecPure: "input", "formatted" or "applied"; "idle" in Spec
    input,      \* the input the pure function is applied to
    output      \* what it returned

vars == <<cache, pc, task, stage, addr, res, decs, out, calls, failed,
          phase, input, output>>

resolverVars == <<cache, pc, task, stage, addr, res, decs, out, calls, failed>>
pureVars == <<phase, input, output>>

-----------------------------------------------------------------------------
(* Bounds *)

NumCallers == 2
MaxNetCalls == 2

-----------------------------------------------------------------------------
(* Results *)

Ok(v) == [tag |-> "Ok", val |-> v]
Err(e) == [tag |-> "Err", err |-> e]
Panic == [tag |-> "Panic"]
NoResult == [tag |-> "None"]

IsOk(r) == r.tag = "Ok"
IsErr(r) == r.tag = "Err"

-----------------------------------------------------------------------------
(* Bytes, addresses and their text forms *)

AddressLen == 20
HashLen == 32

HexDigits == <<"0", "1", "2", "3", "4", "5", "6", "7",
               "8", "9", "a", "b", "c", "d", "e", "f">>

ByteHex(b) == <<HexDigits[(b \div 16) + 1], HexDigits[(b % 16) + 1]>>

RECURSIVE BytesHex(_)
BytesHex(bs) ==
    IF bs = <<>> THEN <<>> ELSE ByteHex(Head(bs)) \o BytesHex(Tail(bs))

Zeros(n) == [i \in 1..n |-> 0]

\* Address::zero()
ZeroAddress == Zeros(AddressLen)

\* 0xC02aaA39b223FE8D0A0e5C4F27eAD9083C756Cc2
WETH_ADDRESS ==
    <<192, 42, 170, 57, 178, 35, 254, 141, 10, 14,
      92, 79, 39, 234, 217, 8, 60, 117, 108, 194>>

\* The one-character text of U+2026, the ellipsis of the Display form.
Ellipsis == "..."

\* coin_address.to_string(): the Display form of a 20-byte fixed hash, which
\* prints "0x", the first two bytes, an ellipsis and the last two bytes.
AddressToString(a) ==
    <<"0", "x">> \o BytesHex(SubSeq(a, 1, 2)) \o <<Ellipsis>>
        \o BytesHex(SubSeq(a, AddressLen - 1, AddressLen))

\* The cache key of the #[cached] wrapper: convert = { coin_address.to_string() }
CacheKey(a) == AddressToString(a)

-----------------------------------------------------------------------------
(* The chain: token contracts and what decimals() answers *)

\* A token whose address differs from WETH in one middle byte.
WethTwin == [WETH_ADDRESS EXCEPT ![10] = 15]
TokenA == <<17, 34, 51, 68, 85, 102, 119, 136, 153, 170,
            187, 204, 221, 238, 255, 1, 2, 3, 4, 5>>
\* A token whose address differs from TokenA in one middle byte.
TokenB == [TokenA EXCEPT ![10] = 171]
PoolX == <<160, 184, 105, 145, 198, 33, 139, 54, 193, 209,
           157, 74, 46, 158, 176, 206, 54, 6, 235, 72>>
PoolY == [PoolX EXCEPT ![20] = 73]

TokenAddresses == {ZeroAddress, WETH_ADDRESS, WethTwin, TokenA, TokenB}

\* What the token contract's decimals() returns when the read succeeds.
ChainDecimals(a) ==
    IF a = TokenA THEN 6
    ELSE IF a = TokenB THEN 8
    ELSE IF a = WethTwin THEN 9
    ELSE 18


-----------------------------------------------------------------------------
(* Pool entity (types.rs) *)

Token(token_address, decimals) ==
    [token_address |-> token_address, decimals |-> decimals]

ExtraNone == [tag |-> "None", fee |-> 0]
ExtraV2(fee) == [tag |-> "UniSwapV2", fee |-> fee]
ExtraV3(fee) == [tag |-> "UniSwapV3", fee |-> fee]

MkPool(protocol, pool, tokens, extra) ==
    [protocol |-> protocol, pool |-> pool, tokens |-> tokens, extra |-> extra]

-----------------------------------------------------------------------------
(* Creation events and their conversion to a Pool *)

V2_FEE == 5

V2PairCreated(pair, token0, token1) ==
    [pair |-> pair, token0 |-> token0, token1 |-> token1]

V3PoolCreated(pool, token0, token1, fee) ==
    [pool |-> pool, token0 |-> token0, token1 |-> token1, fee |-> fee]

\* The tail of UniswapV2PairCreated::to_pool, once both decimals are resolved.
V2BuildPool(ev, d0, d1) ==
    MkPool("UniSwapV2", ev.pair,
           <<Token(ev.token0, d0), Token(ev.token1, d1)>>,
           ExtraV2(V2_FEE))

\* The tail of UniswapV3PoolCreated::to_pool, once both decimals are resolved.
\* The source names the protocol and the extra UniSwapV2 here, and reads
\* self.pair for the pool address, the event's only pool address field.
V3BuildPool(ev, d0, d1) ==
    MkPool("UniSwapV2", ev.pool,
           <<Token(ev.token0, d0), Token(ev.token1, d1)>>,
           ExtraV2(ev.fee))

V2CreationEvents ==
    { V2PairCreated(PoolX, TokenA, WETH_ADDRESS),
      V2PairCreated(PoolY, TokenB, TokenA) }

V3CreationEvents ==
    { V3PoolCreated(PoolX, WethTwin, TokenA, 500),
      V3PoolCreated(PoolY, ZeroAddress, TokenB, 3000) }

-----------------------------------------------------------------------------
(* The decimals resolver and its callers *)

Procs == 1..NumCallers

Tasks ==
    [kind : {"decimals"}, a : TokenAddresses]
        \cup [kind : {"v2pool"}, ev : V2CreationEvents]
        \cup [kind : {"v3pool"}, ev : V3CreationEvents]

NoTask == [kind |-> "none"]

\* coin_address.is_zero() || *coin_address == *WETH_ADDRESS
IsNative(a) == a = ZeroAddress \/ a = WETH_ADDRESS

\* The address the stage-th get_coin_decimals call of a task resolves.
TaskAddress(t, s) ==
    IF t.kind = "decimals" THEN t.a
    ELSE IF s = 1 THEN t.ev.token0 ELSE t.ev.token1

\* cache_get of the wrapper: the cached value under the key, if any.
CacheGet(c, k) == IF k \in DOMAIN c THEN Ok(c[k]) ELSE NoResult

\* cache_set of the wrapper.
CacheSet(c, k, v) == [x \in DOMAIN c \cup {k} |-> IF x = k THEN v ELSE c[x]]

\* result = true: only an Ok result is stored.
CacheAfter(c, k, r) == IF IsOk(r) THEN CacheSet(c, k, r.val) ELSE c

\* The body of get_coin_decimals answers the native addresses itself.
NativeDecimals == 18

\* What the match on contract.decimals().call().await yields.
DecimalsReply(a, ok) ==
    IF ok THEN Ok(ChainDecimals(a)) ELSE Err("Failed to fetch decimals")

ResolverInit ==
    /\ cache = <<>>
    /\ pc = [p \in Procs |-> "idle"]
    /\ task = [p \in Procs |-> NoTask]
    /\ stage = [p \in Procs |-> 0]
    /\ addr = [p \in Procs |-> ZeroAddress]
    /\ res = [p \in Procs |-> NoResult]
    /\ decs = [p \in Procs |-> <<>>]
    /\ out = [p \in Procs |-> NoResult]
    /\ calls = [a \in TokenAddresses |-> 0]
    /\ failed = {}

\* A caller starts get_coin_decimals(a), to_pool of a V2 event or of a V3 event.
Begin(p, t) ==
    /\ pc[p] = "idle"
    /\ pc' = [pc EXCEPT ![p] = "check"]
    /\ task' = [task EXCEPT ![p] = t]
    /\ stage' = [stage EXCEPT ![p] = 1]
    /\ addr' = [addr EXCEPT ![p] = TaskAddress(t, 1)]
    /\ res' = [res EXCEPT ![p] = NoResult]
    /\ decs' = [decs EXCEPT ![p] = <<>>]
    /\ out' = [out EXCEPT ![p] = NoResult]
    /\ UNCHANGED <<cache, calls, failed, pureVars>>

\* The wrapper locks the store and looks the key up: a hit returns the stored
\* value without running the body.
CacheHit(p) ==
    /\ pc[p] = "check"
    /\ CacheKey(addr[p]) \in DOMAIN cache
    /\ res' = [res EXCEPT ![p] = CacheGet(cache, CacheKey(addr[p]))]
    /\ pc' = [pc EXCEPT ![p] = "ret"]
    /\ UNCHANGED <<cache, task, stage, addr, decs, out, calls, failed, pureVars>>

\* A miss releases the lock and runs the body; a native address returns 18.
MissNative(p) ==
    /\ pc[p] = "check"
    /\ CacheKey(addr[p]) \notin DOMAIN cache
    /\ IsNative(addr[p])
    /\ res' = [res EXCEPT ![p] = Ok(NativeDecimals)]
    /\ pc' = [pc EXCEPT ![p] = "store"]
    /\ UNCHANGED <<cache, task, stage, addr, decs, out, calls, failed, pureVars>>

\* A miss for any other address issues contract.decimals().call() and awaits.
MissCall(p) ==
    /\ pc[p] = "check"
    /\ CacheKey(addr[p]) \notin DOMAIN cache
    /\ ~IsNative(addr[p])
    /\ calls[addr[p]] < MaxNetCalls
    /\ calls' = [calls EXCEPT ![addr[p]] = @ + 1]
    /\ pc' = [pc EXCEPT ![p] = "await"]
    /\ UNCHANGED <<cache, task, stage, addr, res, decs, out, failed, pureVars>>

\* The network read completes, with the contract's answer or with an error.
NetReply(p, ok) ==
    /\ pc[p] = "await"
    /\ res' = [res EXCEPT ![p] = DecimalsReply(addr[p], ok)]
    /\ failed' = IF ok THEN failed ELSE failed \cup {addr[p]}
    /\ pc' = [pc EXCEPT ![p] = "store"]
    /\ UNCHANGED <<cache, task, stage, addr, decs, out, calls, pureVars>>

\* The wrapper locks the store again and stores an Ok result under the key.
Store(p) ==
    /\ pc[p] = "store"
    /\ cache' = CacheAfter(cache, CacheKey(addr[p]), res[p])
    /\ pc' = [pc EXCEPT ![p] = "ret"]
    /\ UNCHANGED <<task, stage, addr, res, decs, out, calls, failed, pureVars>>

\* get_coin_decimals was called directly: its result is the task's result.
ReturnDecimals(p) ==
    /\ pc[p] = "ret"
    /\ task[p].kind = "decimals"
    /\ out' = [out EXCEPT ![p] = res[p]]
    /\ pc' = [pc EXCEPT ![p] = "done"]
    /\ UNCHANGED <<cache, task, stage, addr, res, decs, calls, failed, pureVars>>

\* to_pool: the ? after get_coin_decimals(..).await returns the error.
PoolLookupFailed(p) ==
    /\ pc[p] = "ret"
    /\ task[p].kind \in {"v2pool", "v3pool"}
    /\ ~IsOk(res[p])
    /\ out' = [out EXCEPT ![p] = res[p]]
    /\ pc' = [pc EXCEPT ![p] = "done"]
    /\ UNCHANGED <<cache, task, stage, addr, res, decs, calls, failed, pureVars>>

\* to_pool: token0's decimals are resolved, token1's are looked up next.
PoolNextToken(p) ==
    /\ pc[p] = "ret"
    /\ task[p].kind \in {"v2pool", "v3pool"}
    /\ IsOk(res[p])
    /\ stage[p] = 1
    /\ decs' = [decs EXCEPT ![p] = Append(@, res[p].val)]
    /\ stage' = [stage EXCEPT ![p] = 2]
    /\ addr' = [addr EXCEPT ![p] = TaskAddress(task[p], 2)]
    /\ res' = [res EXCEPT ![p] = NoResult]
    /\ pc' = [pc EXCEPT ![p] = "check"]
    /\ UNCHANGED <<cache, task, out, calls, failed, pureVars>>

\* to_pool: both decimals are resolved and the Pool is built.
PoolBuilt(p) ==
    /\ pc[p] = "ret"
    /\ task[p].kind \in {"v2pool", "v3pool"}
    /\ IsOk(res[p])
    /\ stage[p] = 2
    /\ decs' = [decs EXCEPT ![p] = Append(@, res[p].val)]
    /\ out' = [out EXCEPT ![p] =
                 IF task[p].kind = "v2pool"
                 THEN Ok(V2BuildPool(task[p].ev, decs[p][1], res[p].val))
                 ELSE Ok(V3BuildPool(task[p].ev, decs[p][1], res[p].val))]
    /\ pc' = [pc EXCEPT ![p] = "done"]
    /\ UNCHANGED <<cache, task, stage, addr, res, calls, failed, pureVars>>

\* The caller drops the result and is free to call again.
Finish(p) ==
    /\ pc[p] = "done"
    /\ pc' = [pc EXCEPT ![p] = "idle"]
    /\ task' = [task EXCEPT ![p] = NoTask]
    /\ stage' = [stage EXCEPT ![p] = 0]
    /\ addr' = [addr EXCEPT ![p] = ZeroAddress]
    /\ res' = [res EXCEPT ![p] = NoResult]
    /\ decs' = [decs EXCEPT ![p] = <<>>]
    /\ out' = [out EXCEPT ![p] = NoResult]
    /\ UNCHANGED <<cache, calls, failed, pureVars>>

PureIdle ==
    /\ phase = "idle"
    /\ input = NoResult
    /\ output = NoResult

Init == ResolverInit /\ PureIdle

Next ==
    \/ \E p \in Procs, t \in Tasks : Begin(p, t)
    \/ \E p \in Procs : CacheHit(p)
    \/ \E p \in Procs : MissNative(p)
    \/ \E p \in Procs : MissCall(p)
    \/ \E p \in Procs, ok \in BOOLEAN : NetReply(p, ok)
    \/ \E p \in Procs : Store(p)
    \/ \E p \in Procs : ReturnDecimals(p)
    \/ \E p \in Procs : PoolLookupFailed(p)
    \/ \E p \in Procs : PoolNextToken(p)
    \/ \E p \in Procs : PoolBuilt(p)
    \/ \E p \in Procs : Finish(p)

Spec == Init /\ [][Next]_vars


-----------------------------------------------------------------------------
(* Text helpers *)

StartsWith(s, lit) == Len(s) >= Len(lit) /\ SubSeq(s, 1, Len(lit)) = lit

Drop(s, n) == SubSeq(s, n + 1, Len(s))

\* Position of the first c in s, 0 when there is none.
IndexOf(s, c) ==
    IF \E i \in 1..Len(s) : s[i] = c
    THEN CHOOSE i \in 1..Len(s) : s[i] = c /\ \A j \in 1..(i - 1) : s[j] # c
    ELSE 0

\* str::split
RECURSIVE Split(_, _)
Split(s, sep) ==
    LET i == IndexOf(s, sep)
    IN  IF i = 0 THEN <<s>>
        ELSE <<SubSeq(s, 1, i - 1)>> \o Split(Drop(s, i), sep)

Digits == <<"0", "1", "2", "3", "4", "5", "6", "7", "8", "9">>

IsDigit(c) == \E i \in 1..10 : Digits[i] = c
DigitVal(c) == CHOOSE i \in 0..9 : Digits[i + 1] = c

IsHexChar(c) == \E i \in 1..16 : HexDigits[i] = c
HexVal(c) == CHOOSE i \in 0..15 : HexDigits[i + 1] = c

\* An unsigned integer as serde_json writes it.
RECURSIVE NatToText(_)
NatToText(n) ==
    IF n < 10 THEN <<Digits[n + 1]>>
    ELSE NatToText(n \div 10) \o <<Digits[(n % 10) + 1]>>

RECURSIVE DigitsToNat(_)
DigitsToNat(s) ==
    IF s = <<>> THEN 0
    ELSE DigitsToNat(SubSeq(s, 1, Len(s) - 1)) * 10 + DigitVal(s[Len(s)])

\* An unsigned integer as serde_json reads it: digits, no leading zero, and
\* no more than max.
TextToNat(s, max) ==
    IF s = <<>> \/ \E i \in 1..Len(s) : ~IsDigit(s[i])
        THEN Err("expected value")
    ELSE IF Len(s) > 1 /\ s[1] = "0" THEN Err("invalid number")
    ELSE IF DigitsToNat(s) > max THEN Err("invalid value")
    ELSE Ok(DigitsToNat(s))

RECURSIVE HexDecode(_)
HexDecode(s) ==
    IF s = <<>> THEN <<>>
    ELSE <<HexVal(s[1]) * 16 + HexVal(s[2])>> \o HexDecode(Drop(s, 2))

HexPrefix == <<"0", "x">>

\* parse::<Address>(): an optional 0x, then exactly 40 hex digits.
AddressFromStr(s) ==
    LET body == IF StartsWith(s, HexPrefix) THEN Drop(s, 2) ELSE s
    IN  IF \E i \in 1..Len(body) : ~IsHexChar(body[i])
            THEN Err("Invalid character")
        ELSE IF Len(body) # 2 * AddressLen THEN Err("Invalid input length")
        ELSE Ok(HexDecode(body))

\* Address as serde writes it: 0x and all 40 hex digits.
AddressToJson(a) == HexPrefix \o BytesHex(a)

\* Address as serde reads it: 0x is required.
AddressFromJson(s) ==
    IF StartsWith(s, HexPrefix) THEN AddressFromStr(s)
    ELSE Err("0x prefix is missing")

-----------------------------------------------------------------------------
(* Protocol and Pool text encoding (types.rs) *)

Protocols == {"UniSwapV2", "UniSwapV3"}

UniswapV2Name == <<"u", "n", "i", "s", "w", "a", "p", "v", "2">>
UniswapV3Name == <<"u", "n", "i", "s", "w", "a", "p", "v", "3">>

\* impl Display for Protocol
ProtocolDisplay(p) == IF p = "UniSwapV2" THEN UniswapV2Name ELSE UniswapV3Name

\* impl TryFrom<&str> for Protocol
ProtocolTryFromStr(s) ==
    IF s = UniswapV2Name THEN Ok("UniSwapV2")
    ELSE IF s = UniswapV3Name THEN Ok("UniSwapV3")
    ELSE Err("Unsupported protocol")

U8Max == 255
\* Fees of the model stay below this; the u64 range check never rejects them.
FeeMax == 1000000

TokenJsonHead ==
    <<"{", "\"", "t", "o", "k", "e", "n", "_", "a", "d", "d", "r", "e", "s",
      "s", "\"", ":", "\"">>
TokenJsonMid ==
    <<"\"", ",", "\"", "d", "e", "c", "i", "m", "a", "l", "s", "\"", ":">>

\* #[derive(Serialize)] for Token
TokenToJson(t) ==
    TokenJsonHead \o AddressToJson(t.token_address) \o TokenJsonMid
        \o NatToText(t.decimals) \o <<"}">>

RECURSIVE TokenListToJson(_)
TokenListToJson(ts) ==
    IF Len(ts) = 1 THEN TokenToJson(ts[1])
    ELSE TokenToJson(Head(ts)) \o <<",">> \o TokenListToJson(Tail(ts))

\* serde_json::to_string(&self.tokens)
TokensToJson(ts) ==
    IF ts = <<>> THEN <<"[", "]">>
    ELSE <<"[">> \o TokenListToJson(ts) \o <<"]">>

\* #[derive(Deserialize)] for Token, reading one object at the head of s;
\* rest is the text after it.
TokenFromJson(s) ==
    IF ~StartsWith(s, TokenJsonHead) THEN Err("expected token")
    ELSE
      LET s1 == Drop(s, Len(TokenJsonHead))
          q == IndexOf(s1, "\"")
      IN  IF q = 0 THEN Err("EOF while parsing a string")
          ELSE
            LET a == AddressFromJson(SubSeq(s1, 1, q - 1))
                s2 == Drop(s1, q - 1)
            IN  IF ~IsOk(a) THEN a
                ELSE IF ~StartsWith(s2, TokenJsonMid) THEN Err("expected decimals")
                ELSE
                  LET s3 == Drop(s2, Len(TokenJsonMid))
                      e == IndexOf(s3, "}")
                  IN  IF e = 0 THEN Err("EOF while parsing an object")
                      ELSE
                        LET d == TextToNat(SubSeq(s3, 1, e - 1), U8Max)
                        IN  IF ~IsOk(d) THEN d
                            ELSE [tag |-> "Ok", val |-> Token(a.val, d.val),
                                  rest |-> Drop(s3, e)]

RECURSIVE TokenListFromJson(_)
TokenListFromJson(s) ==
    LET t == TokenFromJson(s)
    IN  IF ~IsOk(t) THEN t
        ELSE IF t.rest = <<"]">> THEN Ok(<<t.val>>)
        ELSE IF StartsWith(t.rest, <<",">>)
            THEN LET r == TokenListFromJson(Drop(t.rest, 1))
                 IN  IF IsOk(r) THEN Ok(<<t.val>> \o r.val) ELSE r
        ELSE Err("expected , or ]")

\* serde_json::from_str::<Vec<Token>>
TokensFromJson(s) ==
    IF s = <<"[", "]">> THEN Ok(<<>>)
    ELSE IF StartsWith(s, <<"[">>) THEN TokenListFromJson(Drop(s, 1))
    ELSE Err("expected a sequence")

ExtraNoneJson == <<"\"", "N", "o", "n", "e", "\"">>
ExtraV2JsonHead ==
    <<"{", "\"", "U", "n", "i", "S", "w", "a", "p", "V", "2", "\"", ":", "{",
      "\"", "f", "e", "e", "\"", ":">>
ExtraV3JsonHead ==
    <<"{", "\"", "U", "n", "i", "S", "w", "a", "p", "V", "3", "\"", ":", "{",
      "\"", "f", "e", "e", "\"", ":">>
ExtraJsonTail == <<"}", "}">>

\* serde_json::to_string(&self.extra)
ExtraToJson(x) ==
    IF x.tag = "None" THEN ExtraNoneJson
    ELSE IF x.tag = "UniSwapV2"
        THEN ExtraV2JsonHead \o NatToText(x.fee) \o ExtraJsonTail
    ELSE ExtraV3JsonHead \o NatToText(x.fee) \o ExtraJsonTail

\* The fee of an externally tagged struct variant, s being the text after
\* the head.
ExtraFeeFromJson(s) ==
    IF Len(s) < 2 \/ Drop(s, Len(s) - 2) # ExtraJsonTail
        THEN Err("EOF while parsing an object")
    ELSE TextToNat(SubSeq(s, 1, Len(s) - 2), FeeMax)

\* serde_json::from_str::<PoolExtra>
ExtraFromJson(s) ==
    IF s = ExtraNoneJson THEN Ok(ExtraNone)
    ELSE IF StartsWith(s, ExtraV2JsonHead)
        THEN LET f == ExtraFeeFromJson(Drop(s, Len(ExtraV2JsonHead)))
             IN  IF IsOk(f) THEN Ok(ExtraV2(f.val)) ELSE f
    ELSE IF StartsWith(s, ExtraV3JsonHead)
        THEN LET f == ExtraFeeFromJson(Drop(s, Len(ExtraV3JsonHead)))
             IN  IF IsOk(f) THEN Ok(ExtraV3(f.val)) ELSE f
    ELSE Err("unknown variant")

\* impl Display for Pool: protocol|pool|tokens|extra, the pool address in
\* its Display form.
PoolDisplay(p) ==
    ProtocolDisplay(p.protocol) \o <<"|">> \o AddressToString(p.pool)
        \o <<"|">> \o TokensToJson(p.tokens) \o <<"|">> \o ExtraToJson(p.extra)

\* impl TryFrom<&str> for Pool
PoolTryFromStr(value) ==
    LET parts == Split(value, "|")
    IN  IF Len(parts) # 4 THEN Err("Invalid pool format")
        ELSE
          LET protocol == ProtocolTryFromStr(parts[1])
              pool == AddressFromStr(parts[2])
              tokens == TokensFromJson(parts[3])
              extra == ExtraFromJson(parts[4])
          IN  IF ~IsOk(protocol) THEN protocol
              ELSE IF ~IsOk(pool) THEN pool
              ELSE IF ~IsOk(tokens) THEN tokens
              ELSE IF ~IsOk(extra) THEN extra
              ELSE Ok(MkPool(protocol.val, pool.val, tokens.val, extra.val))


-----------------------------------------------------------------------------
(* Logs and 32-byte words *)

UNISWAP_V2_SWAP_TOPIC ==
    <<215, 138, 217, 95, 164, 108, 153, 75, 101, 81, 208, 218, 133, 252, 39, 95,
      230, 19, 206, 55, 101, 127, 184, 213, 227, 209, 48, 132, 1, 89, 216, 34>>

UNISWAP_V3_SWAP_TOPIC ==
    <<196, 32, 121, 249, 74, 99, 80, 215, 230, 35, 95, 41, 23, 73, 36, 249,
      40, 204, 42, 200, 24, 235, 100, 254, 216, 0, 78, 17, 95, 188, 202, 103>>

MkLog(address, topics, data) ==
    [address |-> address, topics |-> topics, data |-> data]

\* Address::from(H256): the low 20 bytes of the hash.
AddressFromHash(h) == SubSeq(h, HashLen - AddressLen + 1, HashLen)

\* U256::from_big_endian of a short slice.
RECURSIVE FromBigEndian(_)
FromBigEndian(bs) ==
    IF bs = <<>> THEN 0
    ELSE FromBigEndian(SubSeq(bs, 1, Len(bs) - 1)) * 256 + bs[Len(bs)]

\* The i-th 32-byte word of a data buffer, i from 1.
DataWord(data, i) == SubSeq(data, HashLen * (i - 1) + 1, HashLen * i)

-----------------------------------------------------------------------------
(* Creation-event decoding *)

\* impl TryFrom<&Log> for UniswapV2PairCreated: log.topics[1], log.topics[2]
\* and log.data[12..32] are indexed unchecked, and indexing past the end
\* panics.
V2ParseCreation(log) ==
    IF Len(log.topics) < 3 \/ Len(log.data) < 32 THEN Panic
    ELSE Ok(V2PairCreated(SubSeq(log.data, 13, 32),
                          AddressFromHash(log.topics[2]),
                          AddressFromHash(log.topics[3])))

\* impl TryFrom<&Log> for UniswapV3PoolCreated: log.topics[1..3] and
\* log.data[44..64] are indexed unchecked.
V3ParseCreation(log) ==
    IF Len(log.topics) < 4 \/ Len(log.data) < 64 THEN Panic
    ELSE Ok(V3PoolCreated(SubSeq(log.data, 45, 64),
                          AddressFromHash(log.topics[2]),
                          AddressFromHash(log.topics[3]),
                          FromBigEndian(SubSeq(log.topics[4], 30, 32))))

-----------------------------------------------------------------------------
(* Protocol dispatch *)

\* The arms of the match in Protocol::try_from_event_topic, in order; the
\* second arm names UNISWAP_V2_SWAP_TOPIC again.
TopicArms ==
    << [topic |-> UNISWAP_V2_SWAP_TOPIC, protocol |-> "UniSwapV2"],
       [topic |-> UNISWAP_V2_SWAP_TOPIC, protocol |-> "UniSwapV3"] >>

\* A variant of the match whose default arm answers UniSwapV2.
TryFromEventTopicDefaultV2(topic) ==
    IF \E i \in 1..Len(TopicArms) : TopicArms[i].topic = topic
    THEN Ok(TopicArms[CHOOSE i \in 1..Len(TopicArms) :
                        /\ TopicArms[i].topic = topic
                        /\ \A j \in 1..(i - 1) : TopicArms[j].topic # topic].protocol)
    ELSE Ok("UniSwapV2")

\* Protocol::try_from_event_topic: the first arm that matches, else bail!.
TryFromEventTopic(topic) ==
    IF \E i \in 1..Len(TopicArms) : TopicArms[i].topic = topic
    THEN Ok(TopicArms[CHOOSE i \in 1..Len(TopicArms) :
                        /\ TopicArms[i].topic = topic
                        /\ \A j \in 1..(i - 1) : TopicArms[j].topic # topic].protocol)
    ELSE Err("Not interesting")

-----------------------------------------------------------------------------
(* UniswapV3 swap decoding *)

\* An int256 is its 32-byte big-endian two's complement word.
I256Min == <<128>> \o Zeros(HashLen - 1)
I256Zero == Zeros(HashLen)

I256IsNegative(w) == w[1] >= 128

\* amount > 0.into()
I256IsPositive(w) == ~I256IsNegative(w) /\ w # I256Zero

RECURSIVE AddOne(_)
AddOne(bs) ==
    IF bs = <<>> THEN <<>>
    ELSE IF bs[Len(bs)] = 255
        THEN AddOne(SubSeq(bs, 1, Len(bs) - 1)) \o <<0>>
    ELSE SubSeq(bs, 1, Len(bs) - 1) \o <<bs[Len(bs)] + 1>>

\* Two's complement negation, wrapping.
WrappingNeg(w) == AddOne([i \in 1..Len(w) |-> 255 - w[i]])

\* impl Neg for I256: negating the minimum overflows, which panics in a
\* build with overflow checks and wraps otherwise.
NegOutcomes(w) ==
    IF w = I256Min THEN {Panic, Ok(w)} ELSE {Ok(WrappingNeg(w))}

SwapTopicCount == 3
SwapDataWords == 5

\* SwapFilter::decode_log: the signature and two indexed topics, five data
\* words.
V3DecodeLog(log) ==
    IF Len(log.topics) # SwapTopicCount THEN Err("Invalid data")
    ELSE IF Len(log.data) < SwapDataWords * HashLen THEN Err("Invalid data")
    ELSE Ok([amount_0 |-> DataWord(log.data, 1),
             amount_1 |-> DataWord(log.data, 2),
             liquidity |-> SubSeq(DataWord(log.data, 4), 17, 32)])

V3SwapEvent(pool, token0, token1, amount0, amount1, liquidity) ==
    [pool |-> pool, token0 |-> token0, token1 |-> token1,
     amount0 |-> amount0, amount1 |-> amount1, liquidity |-> liquidity]

\* UniswapV3SwapEvent::try_from_log: every result the call can have, r0 and
\* r1 being what the token0() and token1() reads return.
V3TryFromLog(log, r0, r1) ==
    IF Len(log.topics) = 0 \/ log.topics[1] # UNISWAP_V3_SWAP_TOPIC
        THEN {Err("Not a UniswapV3 Swap event")}
    ELSE
      LET parsed == V3DecodeLog(log)
      IN  IF ~IsOk(parsed) THEN {parsed}
          ELSE IF ~IsOk(r0) THEN {r0}
          ELSE IF ~IsOk(r1) THEN {r1}
          ELSE IF I256IsPositive(parsed.val.amount_0)
            THEN { IF n = Panic THEN Panic
                   ELSE Ok(V3SwapEvent(log.address, r0.val, r1.val,
                                       parsed.val.amount_0, n.val,
                                       parsed.val.liquidity)) :
                   n \in NegOutcomes(parsed.val.amount_1) }
          ELSE { IF n = Panic THEN Panic
                 ELSE Ok(V3SwapEvent(log.address, r0.val, r1.val,
                                     n.val, parsed.val.amount_1,
                                     parsed.val.liquidity)) :
                 n \in NegOutcomes(parsed.val.amount_0) }


-----------------------------------------------------------------------------
(* Inputs of the decoders, the dispatcher and the text encoding *)

MaxTopics == 4
MaxTokens == 3

\* A 32-byte topic or data word holding an address, right-aligned.
HashFromAddress(a) == Zeros(HashLen - AddressLen) \o a

\* The same with the 12 high bytes set.
DirtyHashFromAddress(a) == [i \in 1..(HashLen - AddressLen) |-> 255] \o a

\* A uint24 right-aligned in a 32-byte topic.
HashFromU24(f) ==
    Zeros(HashLen - 3) \o <<f \div 65536, (f \div 256) % 256, f % 256>>

\* The int256 word of a small integer.
I256Word(n) ==
    IF n >= 0 THEN Zeros(HashLen - 1) \o <<n>>
    ELSE [i \in 1..(HashLen - 1) |-> 255] \o <<256 + n>>

CreationSignature == [i \in 1..HashLen |-> 13]

CreationTopicAt(i, t0, t1, fee) ==
    IF i = 1 THEN CreationSignature
    ELSE IF i = 2 THEN t0
    ELSE IF i = 3 THEN t1
    ELSE IF i = 4 THEN HashFromU24(fee)
    ELSE Zeros(HashLen)

CreationTopics ==
    { [i \in 1..n |-> CreationTopicAt(i, tt[1], tt[2], fee)] :
        n \in 0..MaxTopics,
        tt \in { <<HashFromAddress(TokenA), HashFromAddress(WETH_ADDRESS)>>,
                 <<DirtyHashFromAddress(TokenB), HashFromAddress(TokenA)>> },
        fee \in {500, 3000} }

CreationDataFull == HashFromAddress(PoolX) \o HashFromAddress(PoolY)

CreationData ==
    { SubSeq(CreationDataFull, 1, n) : n \in {0, 20, 32, 48, 64} }

CreationLogs ==
    { MkLog(PoolX, ts, d) : ts \in CreationTopics, d \in CreationData }

\* Amount pairs as a pool emits them: one side received, the other paid out.
SwapAmountPairs ==
    { <<I256Word(p[1]), I256Word(p[2])>> :
        p \in { <<100, -250>>, <<-100, 250>>, <<7, 0>>, <<0, 7>>, <<0, 0>>,
                <<255, -1>>, <<-255, 1>>, <<1, -255>>, <<-1, 255>> } }

SwapTopics ==
    { <<>>,
      <<UNISWAP_V3_SWAP_TOPIC>>,
      <<UNISWAP_V3_SWAP_TOPIC, HashFromAddress(TokenA), HashFromAddress(TokenB)>>,
      <<UNISWAP_V2_SWAP_TOPIC, HashFromAddress(TokenA), HashFromAddress(TokenB)>> }

SwapData ==
    { a[1] \o a[2] \o I256Word(77) \o I256Word(9) \o I256Word(-3) :
        a \in SwapAmountPairs }
    \cup { I256Word(100) \o I256Word(-250) }

SwapLogs == { MkLog(PoolX, ts, d) : ts \in SwapTopics, d \in SwapData }

Logs == CreationLogs \cup SwapLogs

\* What the token0() and token1() reads of the pool contract may return.
Token0Replies == {Ok(TokenA), Err("token0() failed")}
Token1Replies == {Ok(TokenB), Err("token1() failed")}

Topics ==
    { UNISWAP_V2_SWAP_TOPIC, UNISWAP_V3_SWAP_TOPIC, Zeros(HashLen),
      CreationSignature,
      [UNISWAP_V2_SWAP_TOPIC EXCEPT ![HashLen] = 35],
      [UNISWAP_V3_SWAP_TOPIC EXCEPT ![1] = 197] }

PoolTokens == {Token(TokenA, 6), Token(WETH_ADDRESS, 18), Token(ZeroAddress, 0)}

RECURSIVE SeqsOfLen(_, _)
SeqsOfLen(S, n) ==
    IF n = 0 THEN {<<>>}
    ELSE { Append(q, x) : q \in SeqsOfLen(S, n - 1), x \in S }

TokenLists == UNION { SeqsOfLen(PoolTokens, n) : n \in 2..MaxTokens }

Extras == {ExtraNone, ExtraV2(V2_FEE), ExtraV2(0), ExtraV3(500), ExtraV3(3000)}

Pools ==
    { MkPool(pr, a, ts, x) :
        pr \in Protocols, a \in {PoolX, ZeroAddress}, ts \in TokenLists,
        x \in Extras }

PureInputs ==
    [kind : {"log"}, log : Logs]
        \cup [kind : {"topic"}, topic : Topics]
        \cup [kind : {"pool"}, pool : Pools]

-----------------------------------------------------------------------------
(* The decoders, the dispatcher and the text encoding applied to an input *)

\* No caller of the resolver runs while a pure function is applied.
NoResolver ==
    /\ cache = <<>>
    /\ pc = <<>>
    /\ task = <<>>
    /\ stage = <<>>
    /\ addr = <<>>
    /\ res = <<>>
    /\ decs = <<>>
    /\ out = <<>>
    /\ calls = <<>>
    /\ failed = {}

PureInit ==
    /\ NoResolver
    /\ phase = "input"
    /\ input \in PureInputs
    /\ output = NoResult

ParseV2CreationLog ==
    /\ phase = "input"
    /\ input.kind = "log"
    /\ output' = [op |-> "v2creation", result |-> V2ParseCreation(input.log)]
    /\ phase' = "applied"
    /\ UNCHANGED <<input, resolverVars>>

ParseV3CreationLog ==
    /\ phase = "input"
    /\ input.kind = "log"
    /\ output' = [op |-> "v3creation", result |-> V3ParseCreation(input.log)]
    /\ phase' = "applied"
    /\ UNCHANGED <<input, resolverVars>>

DecodeV3Swap ==
    /\ phase = "input"
    /\ input.kind = "log"
    /\ \E r0 \in Token0Replies, r1 \in Token1Replies :
         \E o \in V3TryFromLog(input.log, r0, r1) :
            output' = [op |-> "v3swap", result |-> o, token0 |-> r0, token1 |-> r1]
    /\ phase' = "applied"
    /\ UNCHANGED <<input, resolverVars>>

DispatchTopic ==
    /\ phase = "input"
    /\ input.kind = "topic"
    /\ output' = [op |-> "dispatch", result |-> TryFromEventTopic(input.topic)]
    /\ phase' = "applied"
    /\ UNCHANGED <<input, resolverVars>>

FormatPool ==
    /\ phase = "input"
    /\ input.kind = "pool"
    /\ output' = [op |-> "format", text |-> PoolDisplay(input.pool)]
    /\ phase' = "formatted"
    /\ UNCHANGED <<input, resolverVars>>

ParsePool ==
    /\ phase = "formatted"
    /\ output' = [op |-> "roundtrip", text |-> output.text,
                  result |-> PoolTryFromStr(output.text)]
    /\ phase' = "applied"
    /\ UNCHANGED <<input, resolverVars>>

PureNext ==
    \/ ParseV2CreationLog
    \/ ParseV3CreationLog
    \/ DecodeV3Swap
    \/ DispatchTopic
    \/ FormatPool
    \/ ParsePool

SpecPure == PureInit /\ [][PureNext]_vars


-----------------------------------------------------------------------------
(* Claims about the decimals resolver, checked under Spec *)

\* C1: concurrent get_coin_decimals calls for one uncached address that is
\* neither zero nor WETH trigger exactly one decimals() network read: while
\* no read of an address has failed, no second read of it is issued.
C1_SingleFlight ==
    \A a \in TokenAddresses :
        (~IsNative(a) /\ a \notin failed) => calls[a] <= 1

\* C2: a failed lookup does not poison the cache: when get_coin_decimals
\* returns an error for an address, the cache holds no entry for it, so the
\* next call for it reads the network again.
C2_FailedLookupLeavesNoEntry ==
    [][\A p \in Procs :
          (pc[p] = "store" /\ pc'[p] = "ret" /\ IsErr(res[p]))
              => CacheKey(addr[p]) \notin DOMAIN cache']_vars

\* C3: the cache is keyed by the token address: a successful lookup of an
\* address returns what decimals() returns for that very address, never a
\* value cached by the lookup of another address.
C3_KeyedByAddress ==
    \A p \in Procs :
        (pc[p] = "ret" /\ IsOk(res[p]) /\ ~IsNative(addr[p]))
            => res[p].val = ChainDecimals(addr[p])

\* C4: get_coin_decimals of the zero address or of WETH returns 18 and never
\* issues a network read, whatever the cache holds.
C4_NativeIs18 ==
    /\ \A a \in TokenAddresses : IsNative(a) => calls[a] = 0
    /\ \A p \in Procs :
         (pc[p] = "ret" /\ IsNative(addr[p])) => res[p] = Ok(NativeDecimals)

\* C10: to_pool of a creation event yields a Pool of the decoder's own
\* protocol family: UniswapV2 with extra UniswapV2{fee} from a PairCreated,
\* UniswapV3 with extra UniswapV3{fee = the event's fee} from a PoolCreated,
\* the event's pool address, and the two tokens in token0, token1 order.
C10_PoolMatchesDecoderFamily ==
    \A p \in Procs :
        (pc[p] = "done" /\ task[p].kind \in {"v2pool", "v3pool"} /\ IsOk(out[p]))
            => LET pool == out[p].val
                   ev == task[p].ev
               IN  /\ task[p].kind = "v2pool" =>
                        /\ pool.protocol = "UniSwapV2"
                        /\ pool.extra = ExtraV2(V2_FEE)
                        /\ pool.pool = ev.pair
                   /\ task[p].kind = "v3pool" =>
                        /\ pool.protocol = "UniSwapV3"
                        /\ pool.extra = ExtraV3(ev.fee)
                        /\ pool.pool = ev.pool
                   /\ Len(pool.tokens) = 2
                   /\ pool.tokens[1].token_address = ev.token0
                   /\ pool.tokens[2].token_address = ev.token1

-----------------------------------------------------------------------------
(* Claims about decoding, dispatch and the text encoding, checked under
   SpecPure *)

KnownSwapTopics == {UNISWAP_V2_SWAP_TOPIC, UNISWAP_V3_SWAP_TOPIC}

Dispatched == phase = "applied" /\ output.op = "dispatch"

\* C5: try_from_event_topic maps each known swap signature to its own
\* protocol through a table of distinct signatures: the UniswapV2 topic
\* yields UniswapV2, the UniswapV3 topic yields UniswapV3, and no two table
\* entries match the same signature.
C5_EachTopicItsProtocol ==
    (Dispatched /\ input.topic \in KnownSwapTopics)
        => /\ input.topic = UNISWAP_V2_SWAP_TOPIC
                => output.result = Ok("UniSwapV2")
           /\ input.topic = UNISWAP_V3_SWAP_TOPIC
                => output.result = Ok("UniSwapV3")
           /\ \A i, j \in 1..Len(TopicArms) :
                i # j => TopicArms[i].topic # TopicArms[j].topic

\* C6: parsing the text a valid Pool formats to succeeds and yields a Pool
\* with the same pool address, protocol, token list and extra.
C6_PoolTextRoundTrip ==
    (phase = "applied" /\ output.op = "roundtrip")
        => /\ IsOk(output.result)
           /\ output.result.val.pool = input.pool.pool
           /\ output.result.val.protocol = input.pool.protocol
           /\ output.result.val.tokens = input.pool.tokens
           /\ output.result.val.extra = input.pool.extra

\* C7: a decoded UniswapV3 swap reports, in its first token and amount, the
\* input side and, in its second, the output side: token0 with amount0 and
\* token1 with -amount1 when amount0 > 0, and inverted (token1 with amount1,
\* token0 with -amount0) when amount0 <= 0; both amounts are non-negative
\* magnitudes.
C7_SwapSignNormalization ==
    (phase = "applied" /\ output.op = "v3swap" /\ IsOk(output.result))
        => LET a0 == DataWord(input.log.data, 1)
               a1 == DataWord(input.log.data, 2)
               t0 == output.token0.val
               t1 == output.token1.val
               ev == output.result.val
           IN  /\ I256IsPositive(a0) =>
                    /\ ev.token0 = t0 /\ ev.amount0 = a0
                    /\ ev.token1 = t1 /\ ev.amount1 = WrappingNeg(a1)
               /\ ~I256IsPositive(a0) =>
                    /\ ev.token0 = t1 /\ ev.amount0 = a1
                    /\ ev.token1 = t0 /\ ev.amount1 = WrappingNeg(a0)
               /\ ~I256IsNegative(ev.amount0)
               /\ ~I256IsNegative(ev.amount1)

\* C8: creation-event decoding of a log with fewer than 3 topics (4 for
\* UniswapV3) or with data shorter than 32 bytes (64 for UniswapV3) returns
\* an error value; it neither panics nor returns an event.
C8_ShortCreationLogIsError ==
    /\ ( /\ phase = "applied" /\ output.op = "v2creation"
         /\ (Len(input.log.topics) < 3 \/ Len(input.log.data) < 32) )
         => IsErr(output.result)
    /\ ( /\ phase = "applied" /\ output.op = "v3creation"
         /\ (Len(input.log.topics) < 4 \/ Len(input.log.data) < 64) )
         => IsErr(output.result)

\* C9: try_from_event_topic of a topic that is neither the UniswapV2 nor the
\* UniswapV3 swap signature returns an error and no Protocol.
C9_UnknownTopicIsError ==
    (Dispatched /\ input.topic \notin KnownSwapTopics)
        => IsErr(output.result)

\* An unknown topic, one byte away from the UniswapV2 signature, has been
\* dispatched and rejected.
C9_Witness ==
    /\ Dispatched
    /\ input.topic \notin KnownSwapTopics
    /\ SubSeq(input.topic, 1, HashLen - 1)
          = SubSeq(UNISWAP_V2_SWAP_TOPIC, 1, HashLen - 1)
    /\ IsErr(output.result)

=============================================================================
